---- MODULE Spec2Model ----
(***************************************************************************)
(* Model of the experiment orchestrators of Compression-Comps:             *)
(*   run_experiments.py        (ProcessPoolExecutor, per-transform CSVs)   *)
(*   run_experiments_full.py   (multiprocessing.Pool.map, one CSV)         *)
(*   generate_sample_images.py (ProcessPoolExecutor, no result table)      *)
(* Text is a sequence of strings: one character each wherever the code     *)
(* inspects characters, and a message literal as a single element.  An     *)
(* optional value is a sequence of length at most one: None is <<>>, a     *)
(* value v is <<v>>.                                                       *)
(* Numerals are unsigned decimal integers; the sample texts contain no     *)
(* sign, point, exponent or the words Python's float() accepts.            *)
(***************************************************************************)
EXTENDS Integers, Sequences, FiniteSets, TLC

\* ---------------------------------------------------------------- bounds
MaxFields == 6
MaxLog == 1
MaxImages == 2
MaxWorkers == 2
MaxScales == 1
MaxFaults == 1
MaxTasks == 4


\* ------------------------------------------------------- optional values
None == <<>>
Some(x) == <<x>>

\* ------------------------------------------------------------------ text
NL == "\n"
Whitespace == {" ", NL}
Digits == <<"0", "1", "2", "3", "4", "5", "6", "7", "8", "9">>
DigitSet == {Digits[i] : i \in 1..10}

RECURSIVE LStrip(_)
LStrip(s) == IF s # <<>> /\ Head(s) \in Whitespace THEN LStrip(Tail(s)) ELSE s

RECURSIVE RStrip(_)
RStrip(s) ==
  IF s # <<>> /\ s[Len(s)] \in Whitespace THEN RStrip(SubSeq(s, 1, Len(s) - 1)) ELSE s

\* str.strip()
Strip(s) == RStrip(LStrip(s))

RECURSIVE LStripChars(_, _)
LStripChars(s, cs) == IF s # <<>> /\ Head(s) \in cs THEN LStripChars(Tail(s), cs) ELSE s

RECURSIVE RStripChars(_, _)
RStripChars(s, cs) ==
  IF s # <<>> /\ s[Len(s)] \in cs THEN RStripChars(SubSeq(s, 1, Len(s) - 1), cs) ELSE s

\* str.strip(chars)
StripChars(s, cs) == RStripChars(LStripChars(s, cs), cs)

StartsWith(s, p) == Len(s) >= Len(p) /\ SubSeq(s, 1, Len(p)) = p
EndsWith(s, p) == Len(s) >= Len(p) /\ SubSeq(s, Len(s) - Len(p) + 1, Len(s)) = p

\* str.lower() on the letters of the sample texts
LowerChar(c) == IF c = "T" THEN "t" ELSE c
Lower(s) == [i \in 1..Len(s) |-> LowerChar(s[i])]

\* str.replace(a, b) for one-character a and b
Replace(s, a, b) == [i \in 1..Len(s) |-> IF s[i] = a THEN b ELSE s[i]]

\* str.split(sep) for a one-character separator: always at least one part
RECURSIVE SplitAcc(_, _, _)
SplitAcc(s, sep, cur) ==
  LET hits == {i \in 1..Len(s) : s[i] = sep}
  IN IF hits = {} THEN <<cur \o s>>
     ELSE LET i == CHOOSE h \in hits : \A g \in hits : h <= g
          IN <<cur \o SubSeq(s, 1, i - 1)>> \o SplitAcc(SubSeq(s, i + 1, Len(s)), sep, <<>>)
Split(s, sep) == SplitAcc(s, sep, <<>>)

\* str.splitlines(): no trailing empty line, nothing for the empty text
SplitLines(s) ==
  IF s = <<>> THEN <<>>
  ELSE LET parts == Split(s, NL)
       IN IF s[Len(s)] = NL THEN SubSeq(parts, 1, Len(parts) - 1) ELSE parts

RECURSIVE JoinLines(_)
JoinLines(ls) ==
  IF ls = <<>> THEN <<>>
  ELSE IF Len(ls) = 1 THEN ls[1]
  ELSE ls[1] \o <<NL>> \o JoinLines(Tail(ls))

RECURSIVE SelectNonBlank(_)
SelectNonBlank(ls) ==
  IF ls = <<>> THEN <<>>
  ELSE IF Strip(Head(ls)) # <<>> THEN <<Strip(Head(ls))>> \o SelectNonBlank(Tail(ls))
  ELSE SelectNonBlank(Tail(ls))

DigitVal(c) == CHOOSE d \in 0..9 : Digits[d + 1] = c

RECURSIVE DigitsVal(_, _)
DigitsVal(s, acc) == IF s = <<>> THEN acc ELSE DigitsVal(Tail(s), 10 * acc + DigitVal(Head(s)))

\* float(x): surrounding whitespace is ignored; ValueError unless a numeral
FloatOk(s) == LET t == Strip(s) IN t # <<>> /\ \A i \in 1..Len(t) : t[i] \in DigitSet
Float(s) == DigitsVal(Strip(s), 0)

\* the decimal numeral of a natural number, as the external program prints it
RECURSIVE Numeral(_)
Numeral(n) == IF n < 10 THEN <<Digits[n + 1]>> ELSE Numeral(n \div 10) \o <<Digits[(n % 10) + 1]>>

\* ------------------------------------------ run_experiments.py parse_output
IsTupleLine(ln) == StartsWith(ln, <<"(">>) /\ EndsWith(ln, <<")">>)

TimesPrefixLower == <<"t", "i", "m", "e", "s", " ", "(", "m", "s", ")", ":">>
TimesPrefix == <<"T", "i", "m", "e", "s", " ", "(", "m", "s", ")", ":">>
IsTimesLine(ln) == StartsWith(Lower(ln), TimesPrefixLower) \/ StartsWith(ln, TimesPrefix)

\* the last line that satisfies the test, None when there is none (the loop
\* overwrites tuple_line / times_line on every match)
RECURSIVE LastTupleLine(_)
LastTupleLine(ls) ==
  IF ls = <<>> THEN None
  ELSE IF IsTupleLine(ls[Len(ls)]) THEN Some(ls[Len(ls)])
  ELSE LastTupleLine(SubSeq(ls, 1, Len(ls) - 1))

RECURSIVE FirstTupleLine(_)
FirstTupleLine(ls) ==
  IF ls = <<>> THEN None
  ELSE IF IsTupleLine(Head(ls)) THEN Some(Head(ls))
  ELSE FirstTupleLine(Tail(ls))

\* the loop with a break at the first match
find_first_tuple_line(lines) == FirstTupleLine(lines)

\* the loop over the lines: tuple_line when it ends
find_tuple_line(lines) == LastTupleLine(lines)

\* the first line that begins like the Times line
FirstTimesLine(ls) ==
  IF SelectSeq(ls, IsTimesLine) = <<>> THEN None ELSE Some(SelectSeq(ls, IsTimesLine)[1])

RECURSIVE LastTimesLine(_)
LastTimesLine(ls) ==
  IF ls = <<>> THEN None
  ELSE IF IsTimesLine(ls[Len(ls)]) THEN Some(ls[Len(ls)])
  ELSE LastTimesLine(SubSeq(ls, 1, Len(ls) - 1))

\* character classes of the pattern ([a-z_]+)=([0-9.+-eE]+); the second class
\* holds the range from "+" to "e" (backslash and backquote, also in that range,
\* occur in no text of the model)
KeyChars ==
  {"a", "b", "c", "d", "e", "f", "g", "h", "i", "j", "k", "l", "m", "n", "o", "p", "q",
   "r", "s", "t", "u", "v", "w", "x", "y", "z", "_"}
\* the class read as digits, ".", "+", "-", "e", "E" only
NumberChars == DigitSet \cup {".", "+", "-", "e", "E"}
ValueChars ==
  DigitSet \cup
  {".", "+", ",", "-", "/", ":", ";", "<", "=", ">", "?", "@", "[", "]", "^", "_",
   "A", "B", "C", "D", "E", "F", "G", "H", "I", "J", "K", "L", "M", "N", "O", "P", "Q",
   "R", "S", "T", "U", "V", "W", "X", "Y", "Z", "a", "b", "c", "d", "e"}

\* the last index of the maximal run of characters of cs that starts at i
\* (i - 1 when s[i] is not in cs)
RECURSIVE RunEnd(_, _, _)
RunEnd(s, i, cs) == IF i <= Len(s) /\ s[i] \in cs THEN RunEnd(s, i + 1, cs) ELSE i - 1

\* re.findall of the pattern, scanning from index i: leftmost matches, both
\* groups greedy; "=" is not a key character, so a key is a maximal run
RECURSIVE FindAll(_, _)
FindAll(s, i) ==
  IF i > Len(s) THEN <<>>
  ELSE LET ke == RunEnd(s, i, KeyChars)
           ve == RunEnd(s, ke + 2, ValueChars)
       IN IF ke >= i /\ ke + 1 <= Len(s) /\ s[ke + 1] = "=" /\ ve >= ke + 2
          THEN <<[k |-> SubSeq(s, i, ke), v |-> SubSeq(s, ke + 2, ve)]>> \o FindAll(s, ve + 1)
          ELSE FindAll(s, i + 1)

\* kv.get(key): the last pair wins in the dict comprehension
RECURSIVE KvGet(_, _)
KvGet(kvs, key) ==
  IF kvs = <<>> THEN None
  ELSE IF kvs[Len(kvs)].k = key THEN Some(Float(kvs[Len(kvs)].v))
  ELSE KvGet(SubSeq(kvs, 1, Len(kvs) - 1), key)

K_encode == <<"e", "n", "c", "o", "d", "e">>
K_quant == <<"q", "u", "a", "n", "t">>
K_entropy_enc == <<"e", "n", "t", "r", "o", "p", "y", "_", "e", "n", "c">>
K_entropy_dec == <<"e", "n", "t", "r", "o", "p", "y", "_", "d", "e", "c">>
K_dequant == <<"d", "e", "q", "u", "a", "n", "t">>
K_inverse == <<"i", "n", "v", "e", "r", "s", "e">>
TimingKeys == <<K_encode, K_quant, K_entropy_enc, K_entropy_dec, K_dequant, K_inverse>>

Raise(msg) == [raised |-> TRUE, msg |-> msg, val |-> <<>>]
Return(v) == [raised |-> FALSE, msg |-> <<>>, val |-> v]

\* the test as len(parts) < 5
TooFew5(parts) == Len(parts) < 5

\* len(parts) != 5
WrongCount5(parts) == Len(parts) # 5

\* mse and psnr taken from each other's part
MetricsSwapped(parts) ==
  <<Float(parts[2]), Float(parts[1]), Float(parts[3]), Float(parts[4]), Float(parts[5])>>

\* the five metrics in the order the parsed parts are assigned to them
MetricsOf(parts) ==
  <<Float(parts[1]), Float(parts[2]), Float(parts[3]), Float(parts[4]), Float(parts[5])>>

\* parse_output: the 11-tuple (mse, psnr, original_entropy, transformed_entropy,
\* quantized_entropy, encode_ms, ..., inverse_ms), the first five as numbers and
\* the six timings as optional values, or the ValueError it raises
parse_output(stdout) ==
  LET output == Strip(stdout)
      lines == SelectNonBlank(SplitLines(output))
      found == find_tuple_line(lines)
      times_line == LastTimesLine(lines)
      tuple_line == IF found # None THEN found
                    ELSE IF IsTupleLine(output) THEN Some(output) ELSE None
  IN IF tuple_line = None
     THEN Raise(<<"Could not find metrics tuple in output: ">> \o output)
     ELSE
       LET t0 == tuple_line[1]
           t == IF IsTupleLine(t0) THEN SubSeq(t0, 2, Len(t0) - 1) ELSE t0
           raw == Split(t, ",")
           parts == [i \in 1..Len(raw) |-> Strip(raw[i])]
       IN IF WrongCount5(parts)
          THEN Raise(<<"Expected 5 metric values, got ">> \o Numeral(Len(parts)) \o <<": ">> \o t0)
          ELSE IF \E i \in 1..5 : ~FloatOk(parts[i])
          THEN Raise(<<"Could not parse metric values: ">> \o t0)
          ELSE
            LET kvs == IF times_line # None
                       THEN FindAll(Replace(Replace(times_line[1], "(", " "), ")", " "), 1)
                       ELSE <<>>
            IN IF \E i \in 1..Len(kvs) : ~FloatOk(kvs[i].v)
               THEN Raise(<<"could not convert string to float: ">>
                            \o (CHOOSE v \in {kvs[i].v : i \in 1..Len(kvs)} :
                                  \E i \in 1..Len(kvs) :
                                    /\ kvs[i].v = v /\ ~FloatOk(v)
                                    /\ \A j \in 1..(i - 1) : FloatOk(kvs[j].v)))
               ELSE Return(MetricsOf(parts) \o [i \in 1..6 |-> KvGet(kvs, TimingKeys[i])])

\* ---------------------------- run_experiments_full.py process_image, step 3
\* the parse of process_image: the tuple of floats, or the ValueError raised
parse_tuple6(stdout) ==
  LET raw_output == Strip(stdout)
  IN IF ~StartsWith(raw_output, <<"(">>) \/ ~EndsWith(raw_output, <<")">>)
     THEN Raise(<<"Output format error: Expected (...,...,...) but got: ">> \o raw_output)
     ELSE
       LET clean_output == StripChars(raw_output, {"(", ")"})
           raw == Split(clean_output, ",")
       IN IF \E i \in 1..Len(raw) : ~FloatOk(raw[i])
          THEN Raise(<<"could not convert string to float">>)
          ELSE IF Len(raw) # 6
          THEN Raise(<<"Expected 6 output values, but found ">> \o Numeral(Len(raw)) \o <<".">>)
          ELSE Return([i \in 1..6 |-> Float(raw[i])])

\* -------------------------------------------------- ordering and sorting
\* the characters of names and paths in code point order
CodeOrder ==
  <<".", "/", "0", "1", "2", "3", "4", "5", "6", "7", "8", "9", "A", "D", "H", "P", "R", "S",
    "a", "b", "e", "g", "n", "p", "s", "t">>
CodePoint(c) == CHOOSE i \in 1..Len(CodeOrder) : CodeOrder[i] = c

\* str < str: the first differing character decides, a proper prefix is smaller
RECURSIVE TextLess(_, _)
TextLess(a, b) ==
  IF b = <<>> THEN FALSE
  ELSE IF a = <<>> THEN TRUE
  ELSE IF Head(a) = Head(b) THEN TextLess(Tail(a), Tail(b))
  ELSE CodePoint(Head(a)) < CodePoint(Head(b))

\* tuple < tuple for pairs of strings
PairLess(p, q) == TextLess(p[1], q[1]) \/ (p[1] = q[1] /\ TextLess(p[2], q[2]))

\* insert entry x behind every entry whose key is not greater (stable)
RECURSIVE Insert(_, _)
Insert(x, sq) ==
  IF sq = <<>> THEN <<x>>
  ELSE IF PairLess(x.key, Head(sq).key) THEN <<x>> \o sq
  ELSE <<Head(sq)>> \o Insert(x, Tail(sq))

RECURSIVE SortEntries(_)
SortEntries(sq) ==
  IF sq = <<>> THEN <<>>
  ELSE Insert(sq[Len(sq)], SortEntries(SubSeq(sq, 1, Len(sq) - 1)))

\* no sort at all
Unsorted(items, keys) == items

\* sorted(items, key=...): keys[i] is the key of items[i], a pair of strings;
\* the sort is stable
Sorted(items, keys) ==
  LET entries == [i \in 1..Len(items) |-> [key |-> keys[i], item |-> items[i]]]
      out == SortEntries(entries)
  IN [i \in 1..Len(out) |-> out[i].item]

\* --------------------------------------------------------------- pathlib
Sep == "/"
RECURSIVE JoinPath(_)
JoinPath(parts) ==
  IF parts = <<>> THEN <<>>
  ELSE IF Len(parts) = 1 THEN parts[1]
  ELSE parts[1] \o <<Sep>> \o JoinPath(Tail(parts))

\* the name of the topmost directory instead
TopName(path) == Split(path, Sep)[1]

\* Path(p).parent.name: the last but one component, "" when there is none
ParentName(path) ==
  LET parts == Split(path, Sep)
  IN IF Len(parts) >= 2 THEN parts[Len(parts) - 1] ELSE <<>>

\* Path(p).name
BaseName(path) == LET parts == Split(path, Sep) IN parts[Len(parts)]

\* str(Path(p).parent)
ParentPath(path) ==
  LET parts == Split(path, Sep) IN JoinPath(SubSeq(parts, 1, Len(parts) - 1))

\* -------------------------------------------------- configuration values
CHUNK_SIZE == 512
TRANSFORMS == <<<<"S", "P">>, <<"H", "A", "A", "R">>>>
DATASETS_DIR == <<"D", "a", "t", "a", "s", "e", "t", "s">>
SAMPLE_TRANSFORMS == <<<<"S", "P">>, <<"H", "A", "A", "R">>, <<"D", "C", "T">>, <<"D", "F", "T">>>>
\* QUANTIZATION_SCALES = range(1, 31, 2), cut so that the task list has at
\* most MaxTasks tasks
QUANTIZATION_SCALES == [i \in 1..(MaxTasks \div Len(SAMPLE_TRANSFORMS)) |-> 2 * i - 1]
IMAGE == <<"D", "a", "t", "a", "s", "e", "t", "s", "/", "S", "/", "1", ".", "p", "n", "g">>
NaN == -1

\* ------------------------------------- outcomes of the external program
\* what subprocess.run meets: the program exits with a code, its stdout and
\* stderr captured, or the 300 s budget runs out
Exited(code, out, err) == [kind |-> "exit", code |-> code, stdout |-> out, stderr |-> err]
TimedOut == [kind |-> "timeout", code |-> 0, stdout |-> <<>>, stderr |-> <<>>]

\* ------------------------------------------ run_experiments.py run_pipeline
MetricKeys == <<"mse", "psnr", "original_entropy", "transformed_entropy", "quantized_entropy">>
TimingFields == <<"encode_ms", "quant_ms", "entropy_enc_ms", "entropy_dec_ms", "dequant_ms",
                  "inverse_ms">>

\* the dict of a task that produced no metrics
FailureRecord(dataset, image_path, transform, error) ==
  [dataset |-> dataset, image_path |-> image_path, transform |-> transform,
   mse |-> None, psnr |-> None, original_entropy |-> None, transformed_entropy |-> None,
   quantized_entropy |-> None, error |-> Some(error)]

\* the timings defaulting to 0 where the Times line does not name them
ZeroFilledRecord(dataset, image_path, transform, v) ==
  LET z(t) == IF t = None THEN Some(0) ELSE t
  IN [dataset |-> dataset, image_path |-> image_path, transform |-> transform,
      mse |-> Some(v[1]), psnr |-> Some(v[2]), original_entropy |-> Some(v[3]),
      transformed_entropy |-> Some(v[4]), quantized_entropy |-> Some(v[5]),
      encode_ms |-> z(v[6]), quant_ms |-> z(v[7]), entropy_enc_ms |-> z(v[8]),
      entropy_dec_ms |-> z(v[9]), dequant_ms |-> z(v[10]), inverse_ms |-> z(v[11]),
      error |-> None]

\* the dict of a task whose output parsed: the timings as parse_output gave them
SuccessRecord(dataset, image_path, transform, v) ==
  [dataset |-> dataset, image_path |-> image_path, transform |-> transform,
   mse |-> Some(v[1]), psnr |-> Some(v[2]), original_entropy |-> Some(v[3]),
   transformed_entropy |-> Some(v[4]), quantized_entropy |-> Some(v[5]),
   encode_ms |-> v[6], quant_ms |-> v[7], entropy_enc_ms |-> v[8], entropy_dec_ms |-> v[9],
   dequant_ms |-> v[10], inverse_ms |-> v[11], error |-> None]

\* the texts the external program may print
GoodTimes ==
  TimesPrefix \o <<" ">> \o K_encode \o <<"=", "3", " ">> \o K_inverse \o <<"=", "4">>
GoodStdout5 ==
  <<"(", "5", ",", " ", "1", "2", ",", " ", "7", ",", " ", "3", ",", " ", "9", ")", NL>>
  \o GoodTimes \o <<NL>>
BadStdout == <<"(", "5", ",", " ", "1", "2", ")", NL>>
GoodStdout6 ==
  <<"(", "5", ",", " ", "1", "2", ",", " ", "7", ",", " ", "3", ",", " ", "9", ",", "4", ")", NL>>
Stderr == <<"b", "o", "o", "m", NL>>

\* parse_output(result.stdout.strip()); what it makes of the two texts above
\* is computed once
ParsedGood5 == parse_output(Strip(GoodStdout5))
ParsedBad5 == parse_output(Strip(BadStdout))
parsed_stdout(text) ==
  IF text = GoodStdout5 THEN ParsedGood5
  ELSE IF text = BadStdout THEN ParsedBad5
  ELSE parse_output(Strip(text))

\* ------------------------------------------------- the files of the run
DatasetA == <<"a">>
DatasetB == <<"b">>
Png1 == <<"1", ".", "p", "n", "g">>
Png2 == <<"2", ".", "p", "n", "g">>
\* the image files a dataset root may hold: [dataset directory, file]
ImageCandidates == {<<DatasetA, Png1>>, <<DatasetA, Png2>>, <<DatasetB, Png1>>}
ImagePath(f) == JoinPath(<<DATASETS_DIR, f[1], f[2]>>)

\* Path(image_path).parent.name; what it gives for the paths of the files
\* above is computed once
KnownParents == [path \in {ImagePath(f) : f \in ImageCandidates} |-> ParentName(path)]
dataset_name(image_path) ==
  IF image_path \in DOMAIN KnownParents THEN KnownParents[image_path]
  ELSE ParentName(image_path)

\* run_pipeline(transform, chunk_size, image_path) when subprocess.run meets
\* outcome o: the dict it returns (it raises nothing, every Exception is caught)
run_pipeline(transform, chunk_size, image_path, o) ==
  IF o.kind = "timeout"
  THEN FailureRecord(dataset_name(image_path), image_path, transform, <<"Timeout">>)
  ELSE IF o.code # 0
  THEN FailureRecord(dataset_name(image_path), image_path, transform, Strip(o.stderr))
  ELSE LET p == parsed_stdout(o.stdout)
       IN IF p.raised
          THEN FailureRecord(dataset_name(image_path), image_path, transform, p.msg)
          ELSE SuccessRecord(dataset_name(image_path), image_path, transform, p.val)

\* -------------------------------------- run_experiments_full.py process_image
error_tuple == <<NaN, NaN, NaN, NaN, NaN, NaN>>

\* the parse of process_image; what it makes of the two texts above is
\* computed once
TupleGood6 == parse_tuple6(GoodStdout6)
TupleBad6 == parse_tuple6(BadStdout)
parsed_tuple(text) ==
  IF text = GoodStdout6 THEN TupleGood6
  ELSE IF text = BadStdout THEN TupleBad6
  ELSE parse_tuple6(text)

\* process_image(task) when subprocess.run(check=True) meets outcome o: every
\* failure (CalledProcessError, TimeoutExpired, ValueError) gives the NaN tuple
process_image(task, o) ==
  LET image_path == task[1]
      transform_type == task[2]
      quantization_scale == task[3]
  IN IF o.kind = "exit" /\ o.code = 0 /\ ~parsed_tuple(o.stdout).raised
     THEN <<image_path, transform_type, quantization_scale, parsed_tuple(o.stdout).val>>
     ELSE <<image_path, transform_type, quantization_scale, error_tuple>>

\* --------------------------------- generate_sample_images.py run_pipeline
\* run_pipeline(transform, image_path, quant_scale, save_flag): subprocess.run
\* without check and without a handler; returns None, or TimeoutExpired escapes
sample_run_pipeline(task, o) ==
  IF o.kind = "timeout"
  THEN [raised |-> TRUE, msg |-> <<"TimeoutExpired">>, val |-> None]
  ELSE [raised |-> FALSE, msg |-> <<>>, val |-> None]

\* ------------------------------------------------------ statistics, CSV
RECURSIVE Sum(_)
Sum(vals) == IF vals = <<>> THEN 0 ELSE Head(vals) + Sum(Tail(vals))

RECURSIVE SumSq(_)
SumSq(vals) == IF vals = <<>> THEN 0 ELSE Head(vals) * Head(vals) + SumSq(Tail(vals))

RECURSIVE NumInsert(_, _)
NumInsert(x, sq) ==
  IF sq = <<>> THEN <<x>>
  ELSE IF x < Head(sq) THEN <<x>> \o sq
  ELSE <<Head(sq)>> \o NumInsert(x, Tail(sq))

RECURSIVE NumSorted(_)
NumSorted(vals) ==
  IF vals = <<>> THEN <<>> ELSE NumInsert(Head(vals), NumSorted(Tail(vals)))

\* an exact quotient a/b, standing for its six-decimal rendering
Ratio(a, b) == Numeral(a) \o <<"/">> \o Numeral(b)

\* statistics.median: the middle value, or the mean of the two middle values
Median(vals) ==
  LET sv == NumSorted(vals)
      n == Len(sv)
  IN IF n % 2 = 1 THEN Ratio(sv[(n + 1) \div 2], 1)
     ELSE Ratio(sv[n \div 2] + sv[n \div 2 + 1], 2)

\* statistics.stdev for n > 1 (the root of the sample variance), else 0.0
Stdev(vals) ==
  LET n == Len(vals)
  IN IF n > 1
     THEN <<"sqrt(">> \o Ratio(n * SumSq(vals) - Sum(vals) * Sum(vals), n * (n - 1)) \o <<")">>
     ELSE Ratio(0, 1)

\* the statistics of no values written as "nan" instead
fmt_stats_nan(vals) ==
  IF vals = <<>> THEN <<"n", "a", "n">>
  ELSE LET sv == NumSorted(vals)
       IN <<"count=">> \o Numeral(Len(vals)) \o <<"; mean=">> \o Ratio(Sum(vals), Len(vals))
          \o <<"; std=">> \o Stdev(vals) \o <<"; min=">> \o Ratio(sv[1], 1)
          \o <<"; median=">> \o Median(vals) \o <<"; max=">> \o Ratio(sv[Len(sv)], 1)

\* _fmt_stats: "" for no values, else the statistic string
_fmt_stats(vals) ==
  IF vals = <<>> THEN <<>>
  ELSE LET sv == NumSorted(vals)
       IN <<"count=">> \o Numeral(Len(vals)) \o <<"; mean=">> \o Ratio(Sum(vals), Len(vals))
          \o <<"; std=">> \o Stdev(vals) \o <<"; min=">> \o Ratio(sv[1], 1)
          \o <<"; median=">> \o Median(vals) \o <<"; max=">> \o Ratio(sv[Len(sv)], 1)

\* what csv writes for a float: str(x), "nan" for NaN
FloatCell(x) == IF x = NaN THEN <<"n", "a", "n">> ELSE Numeral(x) \o <<".", "0">>

\* an absent value written as 0.0
ZeroFloatCell(v) == IF v = None THEN <<"0", ".", "0">> ELSE FloatCell(v[1])

\* what csv.DictWriter writes for an optional float: "" for None
OptFloatCell(v) == IF v = None THEN <<>> ELSE FloatCell(v[1])

\* what csv.DictWriter writes for the error field: "" for None
OptTextCell(v) == IF v = None THEN <<>> ELSE v[1]

fieldnames ==
  <<"dataset", "image_path", "mse", "psnr", "original_entropy", "transformed_entropy",
    "quantized_entropy", "encode_ms", "quant_ms", "entropy_enc_ms", "entropy_dec_ms",
    "dequant_ms", "inverse_ms", "error">>

\* row.get(k, None)
Get(row, k) == IF k \in DOMAIN row THEN row[k] ELSE None

\* the line DictWriter writes for one result dict: a cell per field name
DataRow(row) ==
  [dataset |-> row.dataset, image_path |-> row.image_path,
   mse |-> OptFloatCell(Get(row, "mse")), psnr |-> OptFloatCell(Get(row, "psnr")),
   original_entropy |-> OptFloatCell(Get(row, "original_entropy")),
   transformed_entropy |-> OptFloatCell(Get(row, "transformed_entropy")),
   quantized_entropy |-> OptFloatCell(Get(row, "quantized_entropy")),
   encode_ms |-> OptFloatCell(Get(row, "encode_ms")),
   quant_ms |-> OptFloatCell(Get(row, "quant_ms")),
   entropy_enc_ms |-> OptFloatCell(Get(row, "entropy_enc_ms")),
   entropy_dec_ms |-> OptFloatCell(Get(row, "entropy_dec_ms")),
   dequant_ms |-> OptFloatCell(Get(row, "dequant_ms")),
   inverse_ms |-> OptFloatCell(Get(row, "inverse_ms")),
   error |-> OptTextCell(Get(row, "error"))]

\* the values of one field over the rows that have it (not None)
RECURSIVE ValuesOf(_, _)
ValuesOf(rows, k) ==
  IF rows = <<>> THEN <<>>
  ELSE IF Get(Head(rows), k) # None THEN <<Get(Head(rows), k)[1]>> \o ValuesOf(Tail(rows), k)
  ELSE ValuesOf(Tail(rows), k)

\* sum(1 for r in results if r["error"]): None and "" are both falsy
RECURSIVE ErrorCount(_)
ErrorCount(rows) ==
  IF rows = <<>> THEN 0
  ELSE (IF Head(rows).error # None /\ Head(rows).error[1] # <<>> THEN 1 ELSE 0)
       + ErrorCount(Tail(rows))

\* a summary row: every cell "" except those given (DictWriter fills the keys a
\* row lacks with "")
EmptyRow == [k \in {fieldnames[i] : i \in 1..Len(fieldnames)} |-> <<>>]
SummaryRow(name, cells) ==
  [k \in DOMAIN EmptyRow |->
     IF k = "dataset" THEN <<"SUMMARY">>
     ELSE IF k = "image_path" THEN <<name>>
     ELSE IF k \in DOMAIN cells THEN cells[k] ELSE <<>>]

\* the summary rows in the order they are appended
summary_rows(results) ==
  LET total_count == Len(results)
      error_count == ErrorCount(results)
      success_count == total_count - error_count
  IN <<SummaryRow("counts",
         [error |-> <<"total=">> \o Numeral(total_count) \o <<"; success=">>
                      \o Numeral(success_count) \o <<"; errors=">> \o Numeral(error_count)])>>
     \o [i \in 1..5 |->
           SummaryRow(MetricKeys[i],
                      [k \in {MetricKeys[i]} |-> _fmt_stats(ValuesOf(results, MetricKeys[i]))])]
     \o [i \in 1..6 |->
           SummaryRow(TimingFields[i],
                      [quantized_entropy |-> _fmt_stats(ValuesOf(results, TimingFields[i])),
                       error |-> _fmt_stats(ValuesOf(results, TimingFields[i]))])]

\* the summary rows written above the data rows
summary_first(bucket) ==
  LET results == Sorted(bucket, [i \in 1..Len(bucket) |->
                                   <<bucket[i].dataset, bucket[i].image_path>>])
  IN summary_rows(results) \o [i \in 1..Len(results) |-> DataRow(results[i])]

\* the rows of <transform>_results.csv below the header: the results sorted by
\* (dataset, image_path), then the summary rows
csv_results(bucket) ==
  LET results == Sorted(bucket, [i \in 1..Len(bucket) |->
                                   <<bucket[i].dataset, bucket[i].image_path>>])
  IN [i \in 1..Len(results) |-> DataRow(results[i])] \o summary_rows(results)

CSV_HEADERS ==
  <<"folder_path", "file_name", "quantization_scale", "transform_type", "compression_ratio",
    "entropy_quantized", "mse", "psnr", "encoding_time", "decoding_time">>

\* write_results_to_csv: one line per result, in the order of the list
write_results_to_csv(results) ==
  [i \in 1..Len(results) |->
     <<ParentPath(results[i][1]), BaseName(results[i][1]), Numeral(results[i][3]),
       results[i][2]>> \o [j \in 1..6 |-> FloatCell(results[i][4][j])]]

\* ----------------------------------------------------------------- state
VARIABLES
  script,                \* which program runs
  pc,                    \* position of its main()
  env,                   \* what the program finds: files, arguments, CPUs
  images,                \* run_experiments.py: the catalogue (dataset_name, image_path)
  tasks,                 \* the task list
  fut,                   \* per task: the state of its future / map slot
  results_by_transform,  \* run_experiments.py: transform -> list of result dicts
  completed,             \* the progress counter
  all_results,           \* run_experiments_full.py: what pool.map returned
  results,               \* generate_sample_images.py: the collected results
  csv_files,             \* file name -> the lines written below the header
  sample,                \* parser harness: the synthetic output to print
  printed,               \* parser harness: the printed text
  parsed                 \* parser harness: what the parser made of it

vars ==
  <<script, pc, env, images, tasks, fut, results_by_transform, completed, all_results,
    results, csv_files, sample, printed, parsed>>
sched_vars ==
  <<pc, env, images, tasks, fut, results_by_transform, completed, all_results, results,
    csv_files>>
parse_vars == <<sample, printed, parsed>>

RE == "run_experiments.py"
FULL == "run_experiments_full.py"
GSI == "generate_sample_images.py"

\* ------------------------------------------------------------ environment
FileSystems == {fs \in SUBSET ImageCandidates : Cardinality(fs) <= MaxImages}

ArgTransforms == {<<TRANSFORMS[1]>>, <<TRANSFORMS[2], TRANSFORMS[1]>>, <<TRANSFORMS[1], TRANSFORMS[1]>>}
ScaleValues == {10, 20}
ArgScales == UNION {[1..n -> ScaleValues] : n \in 1..MaxScales}

NoArgs == <<>>
\* the number of tasks the program will make of environment e
TaskCount(s, e) ==
  IF s = RE THEN Len(TRANSFORMS) * Cardinality(e.files)
  ELSE IF s = FULL THEN Cardinality(e.files) * Len(e.transforms) * Len(e.scales)
  ELSE Len(SAMPLE_TRANSFORMS) * Len(QUANTIZATION_SCALES)

AllEnvs(s) ==
  IF s = RE
  THEN [exe : BOOLEAN, root : {TRUE}, files : FileSystems, transforms : {NoArgs},
        scales : {NoArgs}, cpus : 1..MaxWorkers]
       \cup [exe : {TRUE}, root : {FALSE}, files : {{}}, transforms : {NoArgs},
             scales : {NoArgs}, cpus : 1..MaxWorkers]
  ELSE IF s = FULL
  THEN [exe : {TRUE}, root : {TRUE}, files : FileSystems, transforms : ArgTransforms,
        scales : ArgScales, cpus : 1..MaxWorkers]
       \cup [exe : {TRUE}, root : {FALSE}, files : {{}}, transforms : ArgTransforms,
             scales : ArgScales, cpus : 1..MaxWorkers]
  ELSE [exe : BOOLEAN, root : {TRUE}, files : {{}}, transforms : {NoArgs}, scales : {NoArgs},
        cpus : 1..MaxWorkers]

\* the environments whose task list has at most MaxTasks tasks
Envs(s) == {e \in AllEnvs(s) : TaskCount(s, e) <= MaxTasks}

\* the ways the external program may end
Outcomes(s) ==
  IF s = RE
  THEN {Exited(0, GoodStdout5, <<>>), Exited(0, BadStdout, <<>>), Exited(1, <<>>, Stderr),
        Exited(1, <<>>, <<NL>>), TimedOut}
  ELSE IF s = FULL
  THEN {Exited(0, GoodStdout6, <<>>), Exited(0, BadStdout, <<>>), Exited(1, <<>>, Stderr),
        TimedOut}
  ELSE {Exited(0, <<>>, <<>>), Exited(1, <<>>, <<>>), TimedOut}

\* ------------------------------------------------------------------ Init
\* a future: its state, its result or exception, and the outcome its task met
Pending == [st |-> "pending", out |-> None, exc |-> None, met |-> None]
TransformSet == {TRANSFORMS[k] : k \in 1..Len(TRANSFORMS)}
NoSample == [n |-> 0, bad |-> 0, base |-> 0, times |-> "none", before |-> <<>>, after |-> <<>>]

Init ==
  /\ script \in {RE, FULL, GSI}
  /\ env \in Envs(script)
  /\ pc = "start"
  /\ images = <<>>
  /\ tasks = <<>>
  /\ fut = <<>>
  /\ results_by_transform = [t \in TransformSet |-> <<>>]
  /\ completed = 0
  /\ all_results = None
  /\ results = <<>>
  /\ csv_files = <<>>
  /\ sample = NoSample
  /\ printed = None
  /\ parsed = None

\* ------------------------------------------------- scanning, task lists
\* the orders in which a directory walk may list the files of set fs
Enumerations(fs) ==
  {sq \in [1..Cardinality(fs) -> fs] : \A i, j \in 1..Cardinality(fs) : sq[i] = sq[j] => i = j}

\* find_all_images: (dataset_name, image_path) of every png, sorted; walk is
\* the order in which iterdir and glob list the files
find_all_images(e, walk) ==
  IF ~e.root THEN <<>>
  ELSE LET found == [i \in 1..Len(walk) |-> <<walk[i][1], ImagePath(walk[i])>>]
       IN Sorted(found, found)

\* run_experiments.py main, "Prepare all tasks": transform-major cross product
prepare_tasks(imgs) ==
  [i \in 1..(Len(TRANSFORMS) * Len(imgs)) |->
     LET transform == TRANSFORMS[(i - 1) \div Len(imgs) + 1]
         image == imgs[((i - 1) % Len(imgs)) + 1]
     IN <<transform, image[1], image[2]>>]

\* the loops nested with the transform outermost
create_tasks_transform_major(walk, transforms, scales) ==
  LET ni == Len(walk)
      ns == Len(scales)
  IN [i \in 1..(ni * Len(transforms) * ns) |->
        <<ImagePath(walk[(((i - 1) \div ns) % ni) + 1]),
          transforms[(i - 1) \div (ni * ns) + 1],
          scales[((i - 1) % ns) + 1]>>]

\* create_tasks: image-major cross product over the rglob order
create_tasks(walk, transforms, scales) ==
  LET nt == Len(transforms)
      ns == Len(scales)
  IN [i \in 1..(Len(walk) * nt * ns) |->
        <<ImagePath(walk[(i - 1) \div (nt * ns) + 1]),
          transforms[(((i - 1) \div ns) % nt) + 1],
          scales[((i - 1) % ns) + 1]>>]

\* generate_sample_images.py main, "Prepare all tasks"
sample_tasks ==
  LET ns == Len(QUANTIZATION_SCALES)
  IN [i \in 1..(Len(SAMPLE_TRANSFORMS) * ns) |->
        LET transform == SAMPLE_TRANSFORMS[(i - 1) \div ns + 1]
        IN <<transform, IMAGE, QUANTIZATION_SCALES[((i - 1) % ns) + 1],
             <<"results/sample_images/">> \o transform \o <<"_compressionRatio=">>>>]

\* ------------------------------------------------------- main, first part
\* run_experiments.py / generate_sample_images.py: the executable must exist;
\* run_experiments_full.py: the image directory must be a directory
Start ==
  /\ pc = "start"
  /\ pc' = IF script = FULL
           THEN (IF env.root THEN "tasks" ELSE "returned")
           ELSE IF ~env.exe THEN "exit1"
           ELSE IF script = RE THEN "scan" ELSE "tasks"
  /\ UNCHANGED <<script, env, images, tasks, fut, results_by_transform, completed,
                 all_results, results, csv_files, sample, printed, parsed>>

\* the scan without the test for an empty catalogue
FindImagesUnchecked ==
  /\ script = RE /\ pc = "scan"
  /\ \E walk \in Enumerations(env.files) :
       /\ images' = find_all_images(env, walk)
       /\ pc' = "tasks"
  /\ UNCHANGED <<script, env, tasks, fut, results_by_transform, completed, all_results,
                 results, csv_files, sample, printed, parsed>>

\* run_experiments.py main: find the images, stop when there is none
FindImages ==
  /\ script = RE /\ pc = "scan"
  /\ \E walk \in Enumerations(env.files) :
       /\ images' = find_all_images(env, walk)
       /\ pc' = IF Len(images') = 0 THEN "exit1" ELSE "tasks"
  /\ UNCHANGED <<script, env, tasks, fut, results_by_transform, completed, all_results,
                 results, csv_files, sample, printed, parsed>>

\* building the task list; run_experiments_full.py returns when no png exists
PrepareTasks ==
  /\ pc = "tasks"
  /\ \/ /\ script = RE
        /\ tasks' = prepare_tasks(images)
        /\ pc' = "submit"
     \/ /\ script = FULL
        /\ \E walk \in Enumerations(env.files) :
             IF walk = <<>>
             THEN tasks' = <<>> /\ pc' = "returned"
             ELSE tasks' = create_tasks(walk, env.transforms, env.scales) /\ pc' = "submit"
     \/ /\ script = GSI
        /\ tasks' = sample_tasks
        /\ pc' = "submit"
  /\ UNCHANGED <<script, env, images, fut, results_by_transform, completed, all_results,
                 results, csv_files, sample, printed, parsed>>

\* executor.submit for every task / pool.map handing the list to the pool
Submit ==
  /\ pc = "submit"
  /\ fut' = [i \in 1..Len(tasks) |-> Pending]
  /\ pc' = "collect"
  /\ UNCHANGED <<script, env, images, tasks, results_by_transform, completed,
                 all_results, results, csv_files, sample, printed, parsed>>

\* ------------------------------------------------------- the worker pool
\* Pool.map cuts the task list into chunks of this size; an executor hands
\* out single tasks
ChunkSize ==
  IF script = FULL
  THEN LET q == Len(tasks) \div (env.cpus * 4)
           r == Len(tasks) % (env.cpus * 4)
       IN IF r > 0 THEN q + 1 ELSE q
  ELSE 1

\* the chunk task i lies in
ChunkOf(i) == (i - 1) \div ChunkSize
\* a task that failed counted as still to do
UnfinishedOrFailed ==
  {i \in 1..Len(fut) :
     \/ fut[i].st = "pending"
     \/ /\ fut[i].st = "finished" /\ fut[i].met # None
        /\ (fut[i].met[1].kind = "timeout" \/ fut[i].met[1].code # 0)}
\* the tasks no worker has finished
Unfinished == {i \in 1..Len(fut) : fut[i].st = "pending"}
\* each worker takes one task and never another
FirstRoundOnly == {i \in Unfinished : i <= env.cpus}
\* every waiting task executed at once
AllAtOnce == Unfinished
\* the tasks the workers execute: the workers take the chunks in order, each
\* works through its chunk in order, and there are env.cpus of them
Running ==
  {i \in Unfinished :
     /\ \A j \in Unfinished : ChunkOf(j) = ChunkOf(i) => i <= j
     /\ Cardinality({ChunkOf(j) : j \in {k \in Unfinished : ChunkOf(k) < ChunkOf(i)}}) < env.cpus}

\* how the external program ended, without what it printed
Met(o) == [kind |-> o.kind, code |-> o.code]

\* what running task i makes of outcome o of the external program
Invoke(i, o) ==
  IF script = RE
  THEN [st |-> "finished", exc |-> None, met |-> Some(Met(o)),
        out |-> Some(run_pipeline(tasks[i][1], CHUNK_SIZE, tasks[i][3], o))]
  ELSE IF script = FULL
  THEN [st |-> "finished", exc |-> None, met |-> Some(Met(o)),
        out |-> Some(process_image(tasks[i], o))]
  ELSE LET r == sample_run_pipeline(tasks[i], o)
       IN IF r.raised
          THEN [st |-> "finished", exc |-> Some(r.msg), met |-> Some(Met(o)), out |-> None]
          ELSE [st |-> "finished", exc |-> None, met |-> Some(Met(o)), out |-> Some(r.val)]

\* a future whose task did not end well: an exception, an error record, NaNs
IsFault(f) ==
  \/ f.exc # None
  \/ script = RE /\ f.out # None /\ f.out[1].error # None
  \/ script = FULL /\ f.out # None /\ f.out[1][4] = error_tuple
Faults == Cardinality({i \in 1..Len(fut) : IsFault(fut[i])})

\* the external program of running task i ends one way or another and the
\* worker function returns (or raises)
WorkerFinish(i) ==
  /\ pc \in {"collect", "aborting"}
  /\ i \in Running
  /\ \E o \in Outcomes(script) :
       LET done == Invoke(i, o)
       IN /\ fut' = [fut EXCEPT ![i] = done]
          /\ IsFault(done) => Faults < MaxFaults
  /\ UNCHANGED <<script, pc, env, images, tasks, results_by_transform, completed, all_results,
                 results, csv_files, sample, printed, parsed>>

\* a worker process of a ProcessPoolExecutor dies while it runs a task: every
\* future that is not done gets BrokenProcessPool as its exception
WorkerDies ==
  /\ script \in {RE, GSI}
  /\ pc \in {"collect", "aborting"}
  /\ Running # {}
  /\ Faults < MaxFaults
  /\ fut' = [j \in 1..Len(fut) |->
               IF fut[j].st = "pending"
               THEN [st |-> "finished", exc |-> Some(<<"BrokenProcessPool">>), out |-> None,
                     met |-> None]
               ELSE fut[j]]
  /\ UNCHANGED <<script, pc, env, images, tasks, results_by_transform, completed, all_results,
                 results, csv_files, sample, printed, parsed>>

\* ------------------------------------------------------ main, collection
\* the loop body without the except branch's append
CollectedUnlessRaised(bucket, f, task) ==
  IF f.exc = None THEN Append(bucket, f.out[1]) ELSE bucket

\* the body of the loop: the bucket after the result of future f, whose task
\* is (transform, dataset_name, image_path), was read; an exception of the
\* future gives the fallback record
Collected(bucket, f, task) ==
  IF f.exc = None
  THEN Append(bucket, f.out[1])
  ELSE Append(bucket, FailureRecord(task[2], task[3], task[1], f.exc[1]))

\* the loop body storing every record under the first transform
CollectIntoFirstBucket ==
  /\ script = RE /\ pc = "collect"
  /\ \E i \in 1..Len(fut) :
       /\ fut[i].st = "finished"
       /\ results_by_transform' =
            [results_by_transform EXCEPT ![TRANSFORMS[1]] = Collected(@, fut[i], tasks[i])]
       /\ completed' = IF fut[i].exc = None THEN completed + 1 ELSE completed
       /\ fut' = [fut EXCEPT ![i].st = "yielded"]
  /\ UNCHANGED <<script, pc, env, images, tasks, all_results, results, csv_files, sample,
                 printed, parsed>>

\* run_experiments.py main: one turn of the as_completed loop; the identity
\* of the task comes from future_to_task[future]
Collect ==
  /\ script = RE /\ pc = "collect"
  /\ \E i \in 1..Len(fut) :
       /\ fut[i].st = "finished"
       /\ results_by_transform' =
            [results_by_transform EXCEPT ![tasks[i][1]] = Collected(@, fut[i], tasks[i])]
       /\ completed' = IF fut[i].exc = None THEN completed + 1 ELSE completed
       /\ fut' = [fut EXCEPT ![i].st = "yielded"]
  /\ UNCHANGED <<script, pc, env, images, tasks, all_results, results, csv_files, sample,
                 printed, parsed>>

\* generate_sample_images.py main: one turn of the as_completed loop;
\* future.result() stands outside any try, so an exception leaves the loop and
\* the with block, whose exit waits for the pool
CollectSample ==
  /\ script = GSI /\ pc = "collect"
  /\ \E i \in 1..Len(fut) :
       /\ fut[i].st = "finished"
       /\ IF fut[i].exc = None
          THEN /\ results' = Append(results, fut[i].out[1])
               /\ completed' = completed + 1
               /\ pc' = pc
          ELSE /\ pc' = "aborting"
               /\ UNCHANGED <<results, completed>>
       /\ fut' = [fut EXCEPT ![i].st = "yielded"]
  /\ UNCHANGED <<script, env, images, tasks, results_by_transform, all_results, csv_files,
                 sample, printed, parsed>>

\* the loop left after the first future
ExitPoolEarly ==
  /\ script \in {RE, GSI} /\ pc = "collect"
  /\ \E i \in 1..Len(fut) : fut[i].st = "yielded"
  /\ pc' = IF script = RE THEN "write" ELSE "done"
  /\ UNCHANGED <<script, env, images, tasks, fut, results_by_transform, completed,
                 all_results, results, csv_files, sample, printed, parsed>>

\* the as_completed loop ends once every future was yielded; the with block
\* is left
ExitPool ==
  /\ script \in {RE, GSI} /\ pc = "collect"
  /\ \A i \in 1..Len(fut) : fut[i].st = "yielded"
  /\ pc' = IF script = RE THEN "write" ELSE "done"
  /\ UNCHANGED <<script, env, images, tasks, fut, results_by_transform, completed,
                 all_results, results, csv_files, sample, printed, parsed>>

\* the pool has shut down after the exception: main ends with a traceback
Crash ==
  /\ pc = "aborting"
  /\ \A i \in 1..Len(fut) : fut[i].st \in {"finished", "yielded"}
  /\ pc' = "crashed"
  /\ UNCHANGED <<script, env, images, tasks, fut, results_by_transform, completed,
                 all_results, results, csv_files, sample, printed, parsed>>

\* run_experiments_full.py main: pool.map returns the results in task order
\* once every task has finished
MapReturn ==
  /\ script = FULL /\ pc = "collect"
  /\ \A i \in 1..Len(fut) : fut[i].st = "finished"
  /\ all_results' = Some([i \in 1..Len(fut) |-> fut[i].out[1]])
  /\ pc' = "write"
  /\ UNCHANGED <<script, env, images, tasks, fut, results_by_transform, completed, results,
                 csv_files, sample, printed, parsed>>

\* ------------------------------------------------------- main, writing
ResultsFile(transform) == transform \o <<"_results.csv">>
OUTPUT_CSV_FILENAME == <<"experiment_results.csv">>

\* run_experiments.py main: one turn of the loop over TRANSFORMS, the whole
\* body from the sort to writer.writerows
WriteCsv ==
  /\ script = RE /\ pc = "write"
  /\ LET k == Cardinality(DOMAIN csv_files) + 1
         transform == TRANSFORMS[k]
     IN /\ k <= Len(TRANSFORMS)
        /\ csv_files' =
             (ResultsFile(transform) :> csv_results(results_by_transform[transform]))
             @@ csv_files
  /\ UNCHANGED <<script, pc, env, images, tasks, fut, results_by_transform, completed,
                 all_results, results, sample, printed, parsed>>

\* run_experiments.py main: return 0 after the last file
Finish ==
  /\ script = RE /\ pc = "write"
  /\ Cardinality(DOMAIN csv_files) = Len(TRANSFORMS)
  /\ pc' = "done"
  /\ UNCHANGED <<script, env, images, tasks, fut, results_by_transform, completed,
                 all_results, results, csv_files, sample, printed, parsed>>

\* run_experiments_full.py main: write_results_to_csv(all_results)
WriteFull ==
  /\ script = FULL /\ pc = "write"
  /\ csv_files' = (OUTPUT_CSV_FILENAME :> write_results_to_csv(all_results[1])) @@ csv_files
  /\ pc' = "done"
  /\ UNCHANGED <<script, env, images, tasks, fut, results_by_transform, completed,
                 all_results, results, sample, printed, parsed>>

Next ==
  \/ Start
  \/ FindImages
  \/ PrepareTasks
  \/ Submit
  \/ \E i \in 1..Len(fut) : WorkerFinish(i)
  \/ WorkerDies
  \/ Collect
  \/ CollectSample
  \/ ExitPool
  \/ Crash
  \/ MapReturn
  \/ WriteCsv
  \/ Finish
  \/ WriteFull

Spec == Init /\ [][Next]_vars

\* ---------------------------------------------------------- parser harness
\* A synthetic stdout: a tuple line of n fields, field i holding the known
\* value FieldValue(base, i), except field bad (if not 0), which holds a word;
\* then possibly a Times line; log lines before and after.
FieldValue(base, i) == ((i + base) * 7) % 13
LogLine == <<"l", "o", "g">>
ParenLogLine == <<"(", "l", "o", "g", ")">>
\* a log line that begins like the Times line, in lower case
TimesLogLine == TimesPrefixLower \o <<" ">> \o K_encode \o <<"=", "8">>
LogLines == {LogLine, ParenLogLine, TimesLogLine}
LogSeqs == UNION {[1..k -> LogLines] : k \in 0..MaxLog}
BadTimes ==
  TimesPrefix \o <<" ">> \o K_encode \o <<"=", "3", " ">> \o K_quant \o <<"=", "a", "b", "c">>
Samples ==
  {sm \in [n : 0..MaxFields, bad : 0..MaxFields, base : {0, 1}, times : {"none", "good", "bad"},
           before : LogSeqs, after : LogSeqs] : sm.bad <= sm.n}

FieldText(sm, i) == IF i = sm.bad THEN <<"x">> ELSE Numeral(FieldValue(sm.base, i))

RECURSIVE JoinFields(_, _)
JoinFields(sm, i) ==
  IF i > sm.n THEN <<>>
  ELSE IF i = sm.n THEN FieldText(sm, i)
  ELSE FieldText(sm, i) \o <<",", " ">> \o JoinFields(sm, i + 1)

TupleLine(sm) == <<"(">> \o JoinFields(sm, 1) \o <<")">>

\* the text the external program prints for sample sm
StdoutOf(sm) ==
  JoinLines(sm.before \o <<TupleLine(sm)>>
            \o (IF sm.times = "good" THEN <<GoodTimes>>
                ELSE IF sm.times = "bad" THEN <<BadTimes>> ELSE <<>>)
            \o sm.after) \o <<NL>>

ParseInit ==
  /\ script \in {RE, FULL}
  /\ sample \in Samples
  /\ printed = None
  /\ parsed = None
  /\ pc = "harness"
  /\ env = [exe |-> TRUE, root |-> TRUE, files |-> {}, transforms |-> NoArgs, scales |-> NoArgs,
            cpus |-> 1]
  /\ images = <<>>
  /\ tasks = <<>>
  /\ fut = <<>>
  /\ results_by_transform = [t \in TransformSet |-> <<>>]
  /\ completed = 0
  /\ all_results = None
  /\ results = <<>>
  /\ csv_files = <<>>

\* the external program prints the sample
Emit ==
  /\ pc = "harness" /\ printed = None
  /\ printed' = Some(StdoutOf(sample))
  /\ UNCHANGED <<script, sched_vars, sample, parsed>>

\* run_pipeline's call parse_output(result.stdout.strip())
Parse5 ==
  /\ pc = "harness" /\ script = RE /\ printed # None /\ parsed = None
  /\ parsed' = Some(parse_output(Strip(printed[1])))
  /\ UNCHANGED <<script, sched_vars, sample, printed>>

\* step 3 of process_image
Parse6 ==
  /\ pc = "harness" /\ script = FULL /\ printed # None /\ parsed = None
  /\ parsed' = Some(parse_tuple6(printed[1]))
  /\ UNCHANGED <<script, sched_vars, sample, printed>>

ParseNext == Emit \/ Parse5 \/ Parse6

ParseSpec == ParseInit /\ [][ParseNext]_vars

\* ================================================================= claims
IsDataRow(r) == r.dataset # <<"SUMMARY">>
DataRows(rows) == SelectSeq(rows, IsDataRow)
RECURSIVE TotalLen(_, _)
TotalLen(f, ks) ==
  IF ks = {} THEN 0
  ELSE LET k == CHOOSE x \in ks : TRUE IN Len(f[k]) + TotalLen(f, ks \ {k})
\* how many records of a bucket carry the image path of task t
Matches(bucket, t) == Cardinality({j \in 1..Len(bucket) : bucket[j].image_path = t[3]})
Drained == pc \in {"write", "done"}
HasMetrics(r) == \A i \in 1..5 : r[MetricKeys[i]] # None
NoMetrics(r) == \A i \in 1..5 : r[MetricKeys[i]] = None
Buckets == {results_by_transform[t] : t \in TransformSet}
AllRecords == UNION {{b[j] : j \in 1..Len(b)} : b \in Buckets}
Failed(o) == o.kind = "timeout" \/ o.code # 0

\* C1: once the pool has drained, the number of collected records equals the
\* number of enumerated tasks and every task has exactly one record, whatever
\* tasks exited non-zero, timed out, printed unparseable output or had their
\* future raise; once the tables are written, their data rows number the same.
C1_OneRecordPerTask ==
  /\ (script = RE /\ Drained) =>
       /\ TotalLen(results_by_transform, TransformSet) = Len(tasks)
       /\ \A i \in 1..Len(tasks) : Matches(results_by_transform[tasks[i][1]], tasks[i]) = 1
  /\ (script = RE /\ pc = "done") =>
       /\ DOMAIN csv_files = {ResultsFile(t) : t \in TransformSet}
       /\ TotalLen([f \in DOMAIN csv_files |-> DataRows(csv_files[f])], DOMAIN csv_files)
            = Len(tasks)
  /\ (script = FULL /\ Drained) =>
       /\ Len(all_results[1]) = Len(tasks)
       /\ \A i \in 1..Len(tasks) : SubSeq(all_results[1][i], 1, 3) = tasks[i]
  /\ (script = FULL /\ pc = "done") => Len(csv_files[OUTPUT_CSV_FILENAME]) = Len(tasks)

\* a finished run of run_experiments.py in which one task gave metrics and the
\* futures of others raised
C1_Witness ==
  /\ script = RE /\ pc = "done" /\ Len(tasks) = 4
  /\ \E i \in 1..Len(fut) : fut[i].exc # None
  /\ \E i \in 1..Len(fut) : fut[i].out # None /\ HasMetrics(fut[i].out[1])

\* C2: a failing task never aborts the batch: in each of the three schedulers
\* collection goes on for the other tasks and main ends normally, having read
\* the result of every submitted task.
C2_FailureNeverAbortsBatch ==
  /\ pc \notin {"aborting", "crashed"}
  /\ pc = "done" => \A i \in 1..Len(fut) : fut[i].st \in {"yielded", "finished"}
  /\ (pc = "done" /\ script = GSI) => Len(results) = Len(tasks)

\* C3: a non-zero exit code or a timeout always yields a record whose error is
\* set to a non-empty cause and whose metrics are all absent, whatever stderr
\* holds (run_experiments.py); all six values NaN (run_experiments_full.py).
C3_FailureHasCause ==
  \A i \in 1..Len(fut) :
    (fut[i].met # None /\ Failed(fut[i].met[1]) /\ fut[i].out # None) =>
      /\ script = RE =>
           /\ fut[i].out[1].error # None
           /\ fut[i].out[1].error[1] # <<>>
           /\ NoMetrics(fut[i].out[1])
      /\ script = FULL => fut[i].out[1][4] = error_tuple

\* C4: every record produced by run_pipeline or by the exception fallback has
\* all five metrics and no error, or a populated error and no metric.
C4_MetricsXorError ==
  \A r \in AllRecords \cup {fut[i].out[1] : i \in {j \in 1..Len(fut) : script = RE /\ fut[j].out # None}} :
    \/ HasMetrics(r) /\ r.error = None
    \/ NoMetrics(r) /\ r.error # None /\ r.error[1] # <<>>

\* C5: when the external program exceeds its 300 s, the invocation adapter
\* returns a Timeout outcome instead of raising, in all three programs; in
\* run_experiments.py the record's error is "Timeout".
C5_TimeoutNeverRaises ==
  \A i \in 1..Len(fut) :
    (fut[i].met # None /\ fut[i].met[1].kind = "timeout") =>
      /\ fut[i].exc = None
      /\ fut[i].out # None
      /\ script = RE => fut[i].out[1].error = Some(<<"Timeout">>)
      /\ script = FULL => fut[i].out[1][4] = error_tuple

\* the record run_experiments.py must hold for task i once its future was read
RecordOf(i) ==
  IF fut[i].exc = None THEN fut[i].out[1]
  ELSE FailureRecord(tasks[i][2], tasks[i][3], tasks[i][1], fut[i].exc[1])
SameIdentity(r, t) == r.transform = t[1] /\ r.dataset = t[2] /\ r.image_path = t[3]

\* C6: every record carries the transform, dataset and image path of exactly
\* the task that produced it: a record built in the worker (dataset taken from
\* the path's parent directory) as well as a fallback record, in whatever order
\* the futures complete.
C6_RecordCarriesTaskIdentity ==
  script = RE =>
    /\ \A i \in 1..Len(fut) : fut[i].out # None => SameIdentity(fut[i].out[1], tasks[i])
    /\ \A i \in 1..Len(fut) :
         fut[i].st = "yielded" =>
           \E j \in 1..Len(results_by_transform[tasks[i][1]]) :
             /\ results_by_transform[tasks[i][1]][j] = RecordOf(i)
             /\ SameIdentity(RecordOf(i), tasks[i])
    /\ \A r \in AllRecords :
         \E i \in 1..Len(fut) : fut[i].st = "yielded" /\ SameIdentity(r, tasks[i]) /\ r = RecordOf(i)

\* two tasks completed out of submission order, one through the fallback
C6_Witness ==
  /\ script = RE
  /\ \E i, j \in 1..Len(fut) :
       /\ i < j /\ fut[j].st = "yielded" /\ fut[i].st # "yielded"
       /\ fut[j].exc = None
  /\ \E i \in 1..Len(fut) : fut[i].st = "yielded" /\ fut[i].exc # None

RowKey(r) == <<r.dataset, r.image_path>>
InKeyOrder(rows) ==
  \A j \in 1..(Len(rows) - 1) : PairLess(RowKey(rows[j]), RowKey(rows[j + 1]))
\* the index of the task of transform number k and catalogue entry j
TaskIndex(k, j) == (k - 1) * Len(images) + j

\* C7: the data rows of each written table are fixed by the task set and the
\* per-task outcomes alone, not by the order of completion: in each
\* per-transform table they are the tasks' rows in (dataset, image_path) order;
\* in the single table of run_experiments_full.py row i is the row of task i.
C7_RowsIndependentOfCompletionOrder ==
  /\ (script = RE /\ pc = "done") =>
       \A k \in 1..Len(TRANSFORMS) :
         LET rows == DataRows(csv_files[ResultsFile(TRANSFORMS[k])])
         IN /\ rows = [j \in 1..Len(images) |-> DataRow(RecordOf(TaskIndex(k, j)))]
            /\ InKeyOrder(rows)
  /\ (script = FULL /\ pc = "done") =>
       LET rows == csv_files[OUTPUT_CSV_FILENAME]
       IN \A i \in 1..Len(tasks) :
            rows[i] = <<ParentPath(tasks[i][1]), BaseName(tasks[i][1]), Numeral(tasks[i][3]),
                        tasks[i][2]>>
                      \o [j \in 1..6 |-> FloatCell(fut[i].out[1][4][j])]

\* a finished run whose results were collected in another order than the
\* sorted one
C7_Witness ==
  /\ script = RE /\ pc = "done"
  /\ \E b \in Buckets : \E j \in 1..(Len(b) - 1) : PairLess(RowKey(b[j + 1]), RowKey(b[j]))

WellFormed5 == sample.n = 5 /\ sample.bad = 0
WellFormed6 == sample.n = 6 /\ sample.bad = 0
KnownValues(k) == [i \in 1..k |-> FieldValue(sample.base, i)]
NoParenLogAfter == \A j \in 1..Len(sample.after) : ~IsTupleLine(sample.after[j])
NoExtraLine == sample.before = <<>> /\ sample.after = <<>> /\ sample.times = "none"

C10_ParserRoundTrip ==
  (parsed # None /\ NoExtraLine) =>
    /\ (script = RE /\ WellFormed5) =>
         /\ ~parsed[1].raised
         /\ \A i \in 1..5 :
              SuccessRecord(<<>>, <<>>, <<>>, parsed[1].val)[MetricKeys[i]]
                = Some(FieldValue(sample.base, i))
    /\ (script = FULL /\ WellFormed6) =>
         /\ ~parsed[1].raised
         /\ \A i \in 1..6 : parsed[1].val[i] = FieldValue(sample.base, i)

\* a bare five-field line of distinct values was parsed
C10_Witness ==
  /\ script = RE /\ parsed # None /\ NoExtraLine /\ WellFormed5 /\ sample.base = 1
  /\ ~parsed[1].raised
  /\ FieldValue(sample.base, 1) # FieldValue(sample.base, 2)

\* the fields a record of run_experiments.py is known to carry
RecordKeys ==
  {"dataset", "image_path", "transform", "error"}
    \cup {MetricKeys[i] : i \in 1..5} \cup {TimingFields[i] : i \in 1..6}
\* the records run_pipeline returned for a program that exited 0 with metrics
SuccessRecords ==
  {fut[i].out[1] : i \in {j \in 1..Len(fut) :
     script = RE /\ fut[j].out # None /\ fut[j].out[1].error = None}}
\* a timing a Times line did not name counts as zero
OrZero(v) == IF v = None THEN 0 ELSE v[1]

\* C11 (as stated): a record made from a Times line of fine-grained keys
\* reports an aggregate encode time encode + quant + entropy_enc and an
\* aggregate decode time entropy_dec + dequant + inverse, an absent component
\* counting as zero.
C11_AggregateTimesReported ==
  \A r \in SuccessRecords :
    \E e, d \in DOMAIN r \ RecordKeys :
      /\ e # d
      /\ r[e] = Some(OrZero(r.encode_ms) + OrZero(r.quant_ms) + OrZero(r.entropy_enc_ms))
      /\ r[d] = Some(OrZero(r.entropy_dec_ms) + OrZero(r.dequant_ms) + OrZero(r.inverse_ms))

\* C11 (amended): the record reports the six fine-grained timings as the Times
\* line gives them, a timing whose key the line does not name being absent, and
\* holds no aggregate field: for "encode=3 inverse=4" encode_ms is 3,
\* inverse_ms is 4 and the other four are absent.
C11_FineGrainedTimesReported ==
  \A r \in SuccessRecords :
    /\ DOMAIN r = RecordKeys
    /\ r.encode_ms = Some(3) /\ r.inverse_ms = Some(4)
    /\ r.quant_ms = None /\ r.entropy_enc_ms = None
    /\ r.entropy_dec_ms = None /\ r.dequant_ms = None

\* a task of run_experiments.py whose program printed metrics and a Times line
C11_Witness ==
  \E i \in 1..Len(fut) :
    /\ script = RE /\ fut[i].out # None /\ fut[i].met # None
    /\ fut[i].met[1] = [kind |-> "exit", code |-> 0]
    /\ fut[i].out[1] \in SuccessRecords
    /\ HasMetrics(fut[i].out[1])

\* the written tables of run_experiments.py, each with the bucket it was made of
WrittenTransforms == {t \in TransformSet : script = RE /\ ResultsFile(t) \in DOMAIN csv_files}
SummaryRowsOf(t) == SelectSeq(csv_files[ResultsFile(t)], LAMBDA r : ~IsDataRow(r))
\* the summary rows of tracked numeric fields: all but the counts row
IsFieldRow(r) == ~IsDataRow(r) /\ r.image_path # <<"counts">>
FieldOf(r) == r.image_path[1]

\* C12: in every summary row of a tracked field the statistic string stands in
\* the column of that field and every other column is empty; a timing row
\* leaves quantized_entropy and error empty and carries its statistic in its
\* own timing column.
C12_StatisticInOwnColumnOnly ==
  \A t \in WrittenTransforms :
    \A j \in 1..Len(csv_files[ResultsFile(t)]) :
      LET r == csv_files[ResultsFile(t)][j]
      IN IsFieldRow(r) =>
           /\ r[FieldOf(r)] = _fmt_stats(ValuesOf(results_by_transform[t], FieldOf(r)))
           /\ \A c \in DOMAIN r \ {"dataset", "image_path", FieldOf(r)} : r[c] = <<>>

\* every statistic cell of a summary row is empty
NoStatistic(r) == \A c \in DOMAIN r \ {"dataset", "image_path"} : r[c] = <<>>
AllFailed(bucket) == bucket # <<>> /\ \A j \in 1..Len(bucket) : NoMetrics(bucket[j])

\* C13: a statistic over no values is written as the empty string: the summary
\* row of a field no record of the table has a value for holds no statistic,
\* and when every task of a transform failed the table is still written, with
\* its eleven field rows all empty.
C13_EmptySampleRendersEmpty ==
  /\ \A t \in WrittenTransforms :
       /\ \A j \in 1..Len(csv_files[ResultsFile(t)]) :
            LET r == csv_files[ResultsFile(t)][j]
            IN (IsFieldRow(r) /\ ValuesOf(results_by_transform[t], FieldOf(r)) = <<>>)
                 => NoStatistic(r)
       /\ AllFailed(results_by_transform[t]) =>
            /\ Len(SelectSeq(csv_files[ResultsFile(t)], IsFieldRow)) = 11
            /\ \A j \in 1..Len(csv_files[ResultsFile(t)]) :
                 IsFieldRow(csv_files[ResultsFile(t)][j])
                   => NoStatistic(csv_files[ResultsFile(t)][j])
  /\ (script = RE /\ pc = "done") => WrittenTransforms = TransformSet

\* a finished run with the table of a transform whose only task failed
C13_Witness ==
  /\ script = RE /\ pc = "done"
  /\ \E t \in WrittenTransforms :
       /\ AllFailed(results_by_transform[t])
       /\ Len(SelectSeq(csv_files[ResultsFile(t)], IsFieldRow)) = 11

CountsRowsOf(t) == SelectSeq(csv_files[ResultsFile(t)], LAMBDA r : r.image_path = <<"counts">>)
WithMetrics(bucket) == Cardinality({j \in 1..Len(bucket) : HasMetrics(bucket[j])})
WithoutMetrics(bucket) == Cardinality({j \in 1..Len(bucket) : NoMetrics(bucket[j])})
CountsText(total, success, errors) ==
  <<"total=">> \o Numeral(total) \o <<"; success=">> \o Numeral(success)
    \o <<"; errors=">> \o Numeral(errors)

\* C14: the counts row of every table reports total = the number of data rows,
\* errors = the number of records without metrics and success = the number of
\* records with metrics, the two adding up to the total, whatever the mix of
\* outcomes, a non-zero exit with blank stderr included.
C14_CountsRowMatchesRecords ==
  \A t \in WrittenTransforms :
    LET bucket == results_by_transform[t]
        rows == csv_files[ResultsFile(t)]
    IN /\ Len(CountsRowsOf(t)) = 1
       /\ CountsRowsOf(t)[1].error
            = CountsText(Len(DataRows(rows)), WithMetrics(bucket), WithoutMetrics(bucket))
       /\ Len(DataRows(rows)) = WithMetrics(bucket) + WithoutMetrics(bucket)

\* the names of the summary rows in their order: the counts row, then one row
\* per tracked numeric field
SummaryOrder == <<"counts">> \o MetricKeys \o TimingFields

\* C15: in every table all summary rows stand after all data rows, and they
\* are exactly one counts row and one row per tracked numeric field, in the
\* same fixed order whatever the run.
C15_SummaryRowsLastInFixedOrder ==
  \A t \in WrittenTransforms :
    LET rows == csv_files[ResultsFile(t)]
        n == Len(results_by_transform[t])
    IN /\ Len(rows) = n + Len(SummaryOrder)
       /\ \A j \in 1..n : IsDataRow(rows[j])
       /\ \A j \in 1..Len(SummaryOrder) :
            /\ ~IsDataRow(rows[n + j])
            /\ rows[n + j].image_path = <<SummaryOrder[j]>>

\* a table of two data rows followed by its summary rows
C15_Witness ==
  \E t \in WrittenTransforms :
    /\ Len(results_by_transform[t]) = 2
    /\ Len(csv_files[ResultsFile(t)]) = 14
    /\ IsDataRow(csv_files[ResultsFile(t)][2])
    /\ csv_files[ResultsFile(t)][3].image_path = <<"counts">>

FieldNameSet == {fieldnames[i] : i \in 1..Len(fieldnames)}
OptionalFields == {MetricKeys[i] : i \in 1..5} \cup {TimingFields[i] : i \in 1..6}
ZeroCells == {<<"0">>, <<"0", ".", "0">>}
NanCell == <<"n", "a", "n">>

\* C16: the data row of a failed task holds an explicit marker for each absent
\* optional field in the field's own column, the empty cell in the tables of
\* run_experiments.py and nan in the table of run_experiments_full.py, never a
\* zero, and every data row has exactly the declared columns.
C16_AbsentFieldsWrittenAsMarkers ==
  /\ \A t \in WrittenTransforms :
       LET rows == DataRows(csv_files[ResultsFile(t)])
           bucket == results_by_transform[t]
       IN /\ \A j \in 1..Len(rows) : DOMAIN rows[j] = FieldNameSet
          /\ \A b \in 1..Len(bucket) :
               NoMetrics(bucket[b]) =>
                 \E j \in 1..Len(rows) :
                   /\ rows[j].image_path = bucket[b].image_path
                   /\ \A k \in OptionalFields : rows[j][k] = <<>>
  /\ (script = FULL /\ OUTPUT_CSV_FILENAME \in DOMAIN csv_files) =>
       LET rows == csv_files[OUTPUT_CSV_FILENAME]
       IN /\ Len(rows) = Len(all_results[1])
          /\ \A j \in 1..Len(rows) :
               /\ Len(rows[j]) = Len(CSV_HEADERS)
               /\ all_results[1][j][4] = error_tuple =>
                    \A c \in 5..10 : rows[j][c] = NanCell /\ rows[j][c] \notin ZeroCells

\* a written table of run_experiments.py with the data row of a failed task
\* beside that of a task that gave metrics and timings
C16_Witness ==
  \E t \in WrittenTransforms :
    /\ \E b \in 1..Len(results_by_transform[t]) : NoMetrics(results_by_transform[t][b])
    /\ \E b \in 1..Len(results_by_transform[t]) : HasMetrics(results_by_transform[t][b])
    /\ \E j \in 1..Len(csv_files[ResultsFile(t)]) :
         /\ IsDataRow(csv_files[ResultsFile(t)][j])
         /\ csv_files[ResultsFile(t)][j].mse = <<>>
         /\ csv_files[ResultsFile(t)][j].encode_ms = <<>>

NoCatalogue == ~env.root \/ env.files = {}
Aborted == pc \in {"exit1", "returned"}
NothingSubmitted == fut = <<>> /\ tasks = <<>> /\ DOMAIN csv_files = {}

TasksBuilt == pc \in {"submit", "collect", "write", "done", "aborting", "crashed"}

Settled(i) ==
  /\ Len(fut') = Len(fut)
  /\ fut'[i].st # "pending"
  /\ fut'[i].met = fut[i].met /\ fut'[i].out = fut[i].out /\ fut'[i].exc = fut[i].exc

WorkerOf(i) ==
  Cardinality({ChunkOf(j) : j \in {k \in Unfinished : ChunkOf(k) < ChunkOf(i)}}) + 1

CollectSteps == Collect \/ CollectSample \/ ExitPool \/ MapReturn
WorkerSteps == \E i \in 1..Len(fut) : WorkerFinish(i)
FairSpec == Spec /\ WF_vars(CollectSteps) /\ WF_vars(WorkerSteps)

\* C21: once the batch has started, every submitted task eventually reaches a
\* terminal outcome (none stays pending or running forever), and the batch of
\* run_experiments.py and of run_experiments_full.py eventually finishes
\* collecting, given fair scheduling and the timeout of the external program.
C21_EveryTaskEndsAndCollectionFinishes ==
  (pc = "collect") ~>
    (/\ \A i \in 1..Len(fut) : fut[i].st # "pending"
     /\ script \in {RE, FULL} => Drained)

\* run_experiments.py has collected four tasks, one of which timed out
C21_Witness ==
  /\ script = RE /\ pc = "write" /\ Len(fut) = 4
  /\ \A i \in 1..Len(fut) : fut[i].st = "yielded"
  /\ \E i \in 1..Len(fut) : fut[i].met # None /\ fut[i].met[1].kind = "timeout"

\* every submitted task has reported its result to the main process
AllReported ==
  /\ fut # <<>>
  /\ script = RE =>
       /\ \A i \in 1..Len(fut) : fut[i].st = "yielded"
       /\ TotalLen(results_by_transform, TransformSet) = Len(tasks)
  /\ script = FULL =>
       /\ \A i \in 1..Len(fut) : fut[i].st = "finished"
       /\ all_results # None /\ Len(all_results[1]) = Len(tasks)

\* C22: no row of any table is written before every submitted task has
\* reported its result: writing starts only after the pool has drained, each
\* table holds the rows and the summary made of the complete result set, and
\* a table once written is never changed.
C22_WritingOnlyAfterCollection ==
  /\ []((pc = "write" \/ DOMAIN csv_files # {}) => AllReported)
  /\ [](\A t \in WrittenTransforms :
          Len(DataRows(csv_files[ResultsFile(t)])) = Len(results_by_transform[t]))
  /\ [][\A f \in DOMAIN csv_files : f \in DOMAIN csv_files' /\ csv_files'[f] = csv_files[f]]_vars

\* run_experiments.py between its two tables: the first is written, the second
\* is not, and all four tasks were collected
C22_Witness ==
  /\ script = RE /\ pc = "write" /\ Len(tasks) = 4
  /\ Cardinality(DOMAIN csv_files) = 1
  /\ AllReported

\* the record run_pipeline makes of the printed text when the program exits 0
RecordOfPrinted == run_pipeline(TRANSFORMS[1], CHUNK_SIZE, IMAGE, Exited(0, printed[1], <<>>))

\* the Times line with quant=abc is the one parse_output takes: no later line
\* begins like a Times line
BadTimesTaken ==
  sample.times = "bad" /\ \A j \in 1..Len(sample.after) : ~IsTimesLine(sample.after[j])

\* C23: in run_experiments.py a Times line (the one parse_output takes, the
\* last) with a pair whose value the pattern matches but float() rejects
\* (quant=abc) makes parse_output raise, so the
\* task gets a failure record without metrics although its tuple line is well
\* formed; a well-formed tuple gives a success record only if every matched
\* timing value converts.
C23_BadTimingValueFailsTask ==
  (script = RE /\ parsed # None /\ WellFormed5) =>
    /\ BadTimesTaken =>
         /\ parsed[1].raised
         /\ NoMetrics(RecordOfPrinted)
         /\ RecordOfPrinted.error # None /\ RecordOfPrinted.error[1] # <<>>
    /\ (BadTimesTaken /\ NoParenLogAfter) =>
         parsed[1].msg = <<"could not convert string to float: ", "a", "b", "c">>
    /\ HasMetrics(RecordOfPrinted) => (~BadTimesTaken /\ ~parsed[1].raised)

\* a bare well-formed tuple line followed by the Times line with quant=abc
C23_Witness ==
  /\ script = RE /\ parsed # None /\ WellFormed5 /\ sample.times = "bad"
  /\ sample.before = <<>> /\ sample.after = <<>>
  /\ parsed[1].raised /\ NoMetrics(RecordOfPrinted)

\* the non-blank lines of the printed text, in order
PrintedLines ==
  sample.before \o <<TupleLine(sample)>>
    \o (IF sample.times = "good" THEN <<GoodTimes>>
        ELSE IF sample.times = "bad" THEN <<BadTimes>> ELSE <<>>)
    \o sample.after
ParenLines == SelectSeq(PrintedLines, IsTupleLine)
TimesLines == SelectSeq(PrintedLines, IsTimesLine)
\* the text of the last parenthesized line and the last Times line alone
LastLinesOnly ==
  JoinLines(<<ParenLines[Len(ParenLines)]>>
            \o (IF TimesLines = <<>> THEN <<>> ELSE <<TimesLines[Len(TimesLines)]>>))

\* C24: of several lines that start with "(" and end with ")" parse_output
\* takes the last as the metric tuple, and of several Times lines the last as
\* the timing line, the earlier ones being ignored: a parenthesized log line
\* printed after the real tuple replaces it and fails the 5-field check.
C24_LastParenthesizedLineWins ==
  (script = RE /\ parsed # None) =>
    /\ parsed[1] = parse_output(LastLinesOnly)
    /\ (\E j \in 1..Len(sample.after) : sample.after[j] = ParenLogLine) =>
         /\ parsed[1].raised
         /\ parsed[1].msg = <<"Expected 5 metric values, got ", "1", ": ", "(", "l", "o", "g", ")">>
    /\ (WellFormed5 /\ sample.times = "good" /\ sample.after = <<TimesLogLine>>) =>
         /\ ~parsed[1].raised
         /\ parsed[1].val[6] = Some(8) /\ parsed[1].val[11] = None

\* a well-formed tuple line with a parenthesized log line before it and one
\* after it: the one after it was taken
C24_Witness ==
  /\ script = RE /\ parsed # None /\ WellFormed5
  /\ sample.before = <<ParenLogLine>> /\ sample.after = <<ParenLogLine>>
  /\ Len(ParenLines) = 3
  /\ parsed[1].raised

\* how many records of a bucket belong to catalogued image img
RecordsOfImage(bucket, img) ==
  Cardinality({j \in 1..Len(bucket) :
                 bucket[j].image_path = img[2] /\ bucket[j].dataset = img[1]})

\* C25: in run_experiments.py every record stored in results_by_transform[T]
\* has transform T at every point of the collection, the records of the
\* exception fallback included, and once collection has finished each bucket,
\* hence each table, holds exactly one record per catalogued image.
C25_BucketsHoldTheirOwnTransform ==
  script = RE =>
    /\ \A t \in TransformSet :
         \A j \in 1..Len(results_by_transform[t]) : results_by_transform[t][j].transform = t
    /\ Drained =>
         \A t \in TransformSet :
           /\ Len(results_by_transform[t]) = Len(images)
           /\ \A k \in 1..Len(images) : RecordsOfImage(results_by_transform[t], images[k]) = 1
    /\ \A t \in WrittenTransforms :
         Len(DataRows(csv_files[ResultsFile(t)])) = Len(images)

\* collection has finished over two images; the bucket of the second
\* transform holds a fallback record and a record with metrics
C25_Witness ==
  /\ script = RE /\ Drained /\ Len(images) = 2
  /\ \E j \in 1..2 :
       /\ results_by_transform[TRANSFORMS[2]][j].error = Some(<<"BrokenProcessPool">>)
       /\ results_by_transform[TRANSFORMS[2]][j].transform = TRANSFORMS[2]
  /\ \E t \in TransformSet, j \in 1..2 : HasMetrics(results_by_transform[t][j])

====
